---- MODULE Spec2Model ----
(***************************************************************************)
(* MindCare waitlist backend: the waitlist and admin controllers, the     *)
(* waitlist and admin models, the join rate limiter, the e-mail service    *)
(* and the token middleware, as a state machine.                           *)
(* Every request is a process that yields at each                          *)
(* `await` of its handler; a step of the model is the code that runs       *)
(* between two awaits, with the store or mail operation it waited for.     *)
(***************************************************************************)
EXTENDS Integers, Sequences, FiniteSets, TLC

(***************************************************************************)
(* Bounds of the model.                                                    *)
(***************************************************************************)
\* concurrent requests in flight
MaxReq == 2
\* documents ever inserted (ObjectIds handed out)
MaxId == 2
\* clock ticks
MaxTime == 2
\* requests one client address may send to /join between two window resets
MaxHits == 7
\* the same, of a client that stays below the limit
Burst == 2

(***************************************************************************)
(* Program constants.                                                      *)
(***************************************************************************)
\* routes/waitlist.js: rateLimit({ max: 5 })
max == 5
\* middleware/auth.js: expiresIn '24h', in clock ticks
expiresIn == 2
\* clock ticks per calendar day (setHours(0,0,0,0) boundaries)
DayLen == 2

Req == 1..MaxReq
Ids == 1..MaxId
Times == 0..MaxTime
Clients == {"ip1", "ip2"}

(***************************************************************************)
(* E-mail addresses are character sequences, so that validation and        *)
(* normalisation are computed and not assumed.                             *)
(***************************************************************************)
Upper == {"A", "X"}
Lower == {"a", "b", "c", "t", "x", "i", "o"}
Letters == Upper \cup Lower

a_x_io == <<"a", "@", "x", ".", "i", "o">>
A_X_io == <<"A", "@", "X", ".", "i", "o">>
b_x_io == <<"b", "@", "x", ".", "i", "o">>
ct_x_io == <<"c", "+", "t", "@", "x", ".", "i", "o">>
sp_a_x_io == <<" ", "a", "@", "x", ".", "i", "o">>
a_x == <<"a", "@", "x">>

\* request bodies a client may send
RawEmails == {a_x_io, A_X_io, b_x_io, ct_x_io, sp_a_x_io, a_x}

\* String.prototype.toLowerCase on one character
toLowerCase(c) ==
  CASE c = "A" -> "a"
    [] c = "X" -> "x"
    [] OTHER -> c

Positions(s, c) == {i \in 1..Len(s) : s[i] = c}

\* the pieces of s between the occurrences of the separator c
RECURSIVE Split(_, _)
Split(s, c) ==
  IF Positions(s, c) = {} THEN <<s>>
  ELSE LET p == CHOOSE i \in Positions(s, c) : \A j \in Positions(s, c) : i <= j
       IN <<SubSeq(s, 1, p - 1)>> \o Split(SubSeq(s, p + 1, Len(s)), c)

AllIn(s, S) == \A i \in 1..Len(s) : s[i] \in S

\* express-validator isEmail(): one "@", a dot-atom local part, a domain
\* of at least two labels whose last label has at least two letters
isEmail(s) ==
  /\ Cardinality(Positions(s, "@")) = 1
  /\ LET parts == Split(s, "@")
         user == Split(parts[1], ".")
         domain == Split(parts[2], ".")
     IN /\ \A i \in 1..Len(user) :
             Len(user[i]) > 0 /\ AllIn(user[i], Letters \cup {"+"})
        /\ Len(domain) >= 2
        /\ \A i \in 1..Len(domain) :
             Len(domain[i]) > 0 /\ AllIn(domain[i], Letters)
        /\ Len(domain[Len(domain)]) >= 2

\* express-validator normalizeEmail(): lower-cases the address (the
\* provider-specific rewrites do not apply to the domains used here)
normalizeEmail(s) == [i \in 1..Len(s) |-> toLowerCase(s[i])]

\* models/Waitlist.js email validator: /^[\w-\.]+@([\w-]+\.)+[\w-]{2,4}$/
validator(s) ==
  /\ Cardinality(Positions(s, "@")) = 1
  /\ LET parts == Split(s, "@")
         domain == Split(parts[2], ".")
     IN /\ Len(parts[1]) > 0
        /\ AllIn(parts[1], Letters \cup {"."})
        /\ Len(domain) >= 2
        /\ \A i \in 1..Len(domain) :
             Len(domain[i]) > 0 /\ AllIn(domain[i], Letters)
        /\ Len(domain[Len(domain)]) \in 2..4

\* models/Waitlist.js email setters: lowercase: true, trim: true
RECURSIVE trim(_)
trim(s) ==
  IF Len(s) > 0 /\ s[1] = " " THEN trim(Tail(s))
  ELSE IF Len(s) > 0 /\ s[Len(s)] = " " THEN trim(SubSeq(s, 1, Len(s) - 1))
  ELSE s

emailSetter(s) == trim([i \in 1..Len(s) |-> toLowerCase(s[i])])


(***************************************************************************)
(* The state.                                                              *)
(***************************************************************************)
VARIABLES
  store,   \* the waitlists collection: a set of documents
  nextId,  \* the next ObjectId the driver hands out
  now,     \* the clock, in ticks
  hits,    \* the rate limiter's counter of each client address
  req,     \* the requests in flight: position and locals of each handler
  out,     \* the response sent by the last step, with how its request came to it
  admins,  \* the admins collection: a set of accounts
  tokens   \* the tokens the logins have handed to the clients

vars == <<store, nextId, now, hits, req, out, admins, tokens>>

\* a Date field: null, or the tick it holds
null == <<>>
Date(t) == <<t>>

Statuses == {"pending", "confirmed", "unsubscribed"}

\* a slot that serves no request
IdleReq ==
  [kind |-> "none", pc |-> "idle", body |-> <<>>, email |-> <<>>, ip |-> "none",
   doc |-> 0, docStatus |-> "none", createdAt |-> 0,
   emailSent |-> FALSE, totalCount |-> 0, confirmedCount |-> 0,
   path |-> "none", mailed |-> FALSE, quiet |-> FALSE,
   password |-> "", hash |-> <<>>, role |-> "none", auth |-> <<>>,
   filter |-> <<>>, query |-> <<>>, entries |-> <<>>, page |-> 0, limit |-> 0,
   counts |-> <<>>]

\* a response with res.status(status).json({message, ...})
Response(kind, by, status, message) ==
  [kind |-> kind, by |-> by, status |-> status, message |-> message,
   email |-> <<>>, position |-> 0, emailSent |-> FALSE,
   total |-> 0, confirmed |-> 0, today |-> 0,
   body |-> <<>>, path |-> "none", error |-> "none", mailed |-> FALSE,
   quiet |-> FALSE,
   password |-> "", token |-> <<>>, role |-> "none", auth |-> <<>>,
   filter |-> <<>>, query |-> <<>>, entries |-> <<>>, page |-> 0, limit |-> 0,
   pages |-> 0,
   csv |-> <<>>, counts |-> <<>>, doc |-> 0]

NoResponse == Response("none", "none", 0, "")

\* a step that sends no response
Silent == out' = NoResponse

\* the response of request r, carrying what r did on its way
Reply(r, status, message) ==
  [Response(req[r].kind, "handler", status, message) EXCEPT
     !.body = req[r].body, !.path = req[r].path, !.mailed = req[r].mailed,
     !.quiet = req[r].quiet]

\* every request that is in flight while another one arrives no longer
\* runs alone
Disturb(q) == IF q.pc = "idle" THEN q ELSE [q EXCEPT !.quiet = FALSE]

Alone(r) == \A x \in Req \ {r} : req[x].pc = "idle"

\* request r starts as q; the other requests see it arrive
Start(r, q) == req' = [x \in Req |-> IF x = r THEN q ELSE Disturb(req[x])]

\* a request is answered without occupying a slot
Pass == req' = [x \in Req |-> Disturb(req[x])]

\* request r ends
Finish(r) == req' = [req EXCEPT ![r] = IdleReq]

\* the slot a new request takes: the first free one
Free(r) == req[r].pc = "idle" /\ \A x \in Req : x < r => req[x].pc # "idle"

(***************************************************************************)
(* The Waitlist collection (models/Waitlist.js) and its queries.           *)
(***************************************************************************)
\* Waitlist.findOne({ email }): the documents matching the cast filter
findOne(email) == {e \in store : e.email = emailSetter(email)}

countActive_all == Cardinality(store)

\* Waitlist.countDocuments({ status: { $ne: 'unsubscribed' } })
countActive == Cardinality({e \in store : e.status # "unsubscribed"})

\* Waitlist.countDocuments({ status: 'confirmed' })
countConfirmed == Cardinality({e \in store : e.status = "confirmed"})

\* new Date(new Date().setHours(0, 0, 0, 0)): today's midnight
todayStart(t) == (t \div DayLen) * DayLen

\* Waitlist.countDocuments({ createdAt: { $gte: midnight }, status: { $ne: 'unsubscribed' } })
countToday(t) ==
  Cardinality({e \in store : e.createdAt >= todayStart(t) /\ e.status # "unsubscribed"})

countPosition_all(t) == Cardinality({e \in store : e.createdAt <= t})

\* Waitlist.countDocuments({ createdAt: { $lte: t }, status: { $ne: 'unsubscribed' } })
countPosition(t) ==
  Cardinality({e \in store : e.createdAt <= t /\ e.status # "unsubscribed"})

duplicateKey_noIndex(email) == FALSE

\* the unique index on email: an insert of a second document with the
\* same email is rejected with E11000
duplicateKey(email) == \E e \in store : e.email = email

reactivatedStatus_confirmed == "confirmed"

\* the status written by the reactivation branch of addToWaitlist
reactivatedStatus == "pending"

\* the branch of addToWaitlist on existingEntry.status === 'unsubscribed'
reactivates_notConfirmed(e) == e.status # "confirmed"

reactivates(e) == e.status = "unsubscribed"

newEntry_pending(id, email, ip, t) ==
  [id |-> id, email |-> email, ipAddress |-> ip, status |-> "pending",
   confirmedAt |-> null, createdAt |-> t]

newEntry_notStamped(id, email, ip, t) ==
  [id |-> id, email |-> email, ipAddress |-> ip, status |-> "confirmed",
   confirmedAt |-> null, createdAt |-> t]

\* the fields of the document Waitlist.create() inserts in addToWaitlist
newEntry(id, email, ip, t) ==
  [id |-> id, email |-> email, ipAddress |-> ip, status |-> "confirmed",
   confirmedAt |-> Date(t), createdAt |-> t]

save_everyDocument(id, changes) ==
  {[f \in DOMAIN e |-> IF f \in DOMAIN changes THEN changes[f] ELSE e[f]] : e \in store}

\* document.save(): writes the modified paths of the loaded document
save(id, changes) ==
  {IF e.id = id
     THEN [f \in DOMAIN e |-> IF f \in DOMAIN changes THEN changes[f] ELSE e[f]]
     ELSE e : e \in store}

exists(id) == \E e \in store : e.id = id

\* Waitlist.find({ status: { $ne: 'unsubscribed' } }) of getAllWaitlistEntries
findActive(S) == {e \in S : e.status # "unsubscribed"}

(***************************************************************************)
(* services/emailService.js                                                *)
(***************************************************************************)
\* createTransporter(): throws when a mail variable is missing
createTransporter(configured) == IF configured THEN "transporter" ELSE "throw"

\* sendWelcomeEmail(): the result it returns, or "throw" when
\* createTransporter or sendMail threw (the catch block rethrows)
sendWelcomeEmail(configured, delivered) ==
  IF createTransporter(configured) = "throw" THEN "throw"
  ELSE IF ~delivered THEN "throw"
  ELSE "success"

(***************************************************************************)
(* routes/waitlist.js: the limiter of POST /join.                          *)
(***************************************************************************)
limited_atMax(count) == count >= max

\* express-rate-limit: a request is refused when its count exceeds max
limited(count) == count > max


(***************************************************************************)
(* middleware/auth.js                                                      *)
(***************************************************************************)
\* the address of the bootstrap admin (ADMIN_EMAIL)
AdminEmail == a_x_io

\* generateToken(email) called at tick t
generateToken(email, t) ==
  [email |-> email, role |-> "admin", iat |-> t, exp |-> t + expiresIn,
   sig |-> "JWT_SECRET"]

\* a string that is no token, and a token signed with another secret
MalformedToken == [email |-> <<>>, role |-> "", iat |-> 0, exp |-> 0, sig |-> "none"]
ForgedToken == [generateToken(AdminEmail, 0) EXCEPT !.exp = MaxTime + expiresIn + 1, !.sig = "other"]

\* the tokens a client can hold at tick t: those a login handed out up to
\* t, and those it made up
Tokens(t) == {generateToken(AdminEmail, i) : i \in 0..t} \cup {MalformedToken, ForgedToken}

\* an Authorization header: absent, or a value with or without the
\* "Bearer " prefix before a possibly empty rest
NoHeader == [present |-> FALSE, bearer |-> FALSE, rest |-> <<>>]
Headers(t) ==
  {NoHeader} \cup
  [present : {TRUE}, bearer : BOOLEAN, rest : {<<>>} \cup {<<k>> : k \in Tokens(t)}]

\* the adminToken cookie: absent or a token
Cookies(t) == {<<>>} \cup {<<k>> : k \in Tokens(t)}

\* header.replace('Bearer ', ''): the value without its prefix
replaceBearer(h) == h.rest

tokenOf_cookieFirst(h, c) == IF c # <<>> THEN c ELSE IF h.present THEN replaceBearer(h) ELSE <<>>

\* req.header('Authorization')?.replace('Bearer ', '') || req.cookies?.adminToken
tokenOf(h, c) == IF h.present /\ replaceBearer(h) # <<>> THEN replaceBearer(h) ELSE c

verify_noExpiry(k, t) == k.sig = "JWT_SECRET"

\* jwt.verify(token, JWT_SECRET) at tick t does not throw
verify(k, t) == k.sig = "JWT_SECRET" /\ t < k.exp

authenticateAdmin_activeAccount(h, c, t) ==
  IF tokenOf(h, c) = <<>> THEN 401
  ELSE IF /\ verify(tokenOf(h, c)[1], t)
          /\ \E a \in admins : a.email = tokenOf(h, c)[1].email /\ a.isActive
    THEN 0
  ELSE 401

authenticateAdmin_anyToken(h, c, t) ==
  IF tokenOf(h, c) = <<>> THEN 401 ELSE 0

\* authenticateAdmin: 0 when next() is called, else the status it answers
authenticateAdmin(h, c, t) ==
  IF tokenOf(h, c) = <<>> THEN 401
  ELSE IF verify(tokenOf(h, c)[1], t) THEN 0
  ELSE 401

NoTokenMsg == "Access denied. No token provided."
InvalidTokenMsg == "Invalid or expired token."

\* the message of the 401 of authenticateAdmin
authMessage(h, c) == IF tokenOf(h, c) = <<>> THEN NoTokenMsg ELSE InvalidTokenMsg

\* the tokens a client holds: those the logins handed out, and those it
\* made up
Held == tokens \cup {MalformedToken, ForgedToken}
HeldHeaders ==
  {NoHeader} \cup
  [present : {TRUE}, bearer : BOOLEAN, rest : {<<>>} \cup {<<k>> : k \in Held}]
HeldCookies == {<<>>} \cup {<<k>> : k \in Held}

(***************************************************************************)
(* models/Admin.js: the admins collection.                                 *)
(***************************************************************************)
\* bcrypt.hash(password, salt): the stored form of a password
bcryptHash(p) == <<"bcrypt", p>>

\* admin.comparePassword(candidate): bcrypt.compare(candidate, this.password)
comparePassword(candidate, hash) == bcryptHash(candidate) = hash

\* new Admin({ email, password, role }) saved: the password is hashed by
\* the pre-save hook, isActive defaults to true, lastLogin is not set
Admin(email, password, role) ==
  [email |-> email, password |-> bcryptHash(password), role |-> role,
   isActive |-> TRUE, lastLogin |-> null]

\* db.admins.updateOne({ email }, { $set: { isActive: false } })
deactivated(a) == [a EXCEPT !.isActive = FALSE]

\* the accounts: the bootstrap superadmin of setup-admin.js, and a second
\* admin that was deactivated
Accounts ==
  {Admin(AdminEmail, "pw1", "superadmin"), deactivated(Admin(b_x_io, "pw2", "admin"))}

\* Admin.findOne({ email })
findAdmin(email) == {a \in admins : a.email = email}

\* the operator deactivates the account with this email in the database
deactivate(email) ==
  /\ \E a \in findAdmin(email) : a.isActive
  /\ admins' = {IF a.email = email THEN deactivated(a) ELSE a : a \in admins}
  /\ UNCHANGED <<store, nextId, now, hits, req, tokens>>
  /\ Silent

\* the operator deletes the account with this email from the database
deleteAdmin(email) ==
  /\ findAdmin(email) # {}
  /\ admins' = admins \ findAdmin(email)
  /\ UNCHANGED <<store, nextId, now, hits, req, tokens>>
  /\ Silent

(***************************************************************************)
(* routes/admin.js and controllers/adminController.js: adminLogin          *)
(***************************************************************************)
InvalidLoginMsg == "Invalid email or password"
DeactivatedMsg == "Account is deactivated. Contact support."
LoginOkMsg == "Login successful"
LoginFailedMsg == "Login failed. Please try again."

\* the bodies a client posts to /login
LoginBodies ==
  [email : {a_x_io, b_x_io, ct_x_io, a_x}, password : {"pw1", "pw2", ""}]

\* validateLogin: body('email').isEmail(), body('password').notEmpty()
validateLogin(body) == isEmail(body.email) /\ body.password # ""

loginGate_noActiveCheck(found) ==
  IF found = {} THEN 401 ELSE 0

\* the checks of adminLogin on the account it found, before the password
\* is compared: 0 when it goes on, else the status it answers
loginGate(found) ==
  IF found = {} THEN 401
  ELSE IF ~(CHOOSE a \in found : TRUE).isActive THEN 403
  ELSE 0

\* the response of a login request
LoginReply(body, status, message) ==
  [Response("login", "handler", status, message) EXCEPT
     !.email = body.email, !.password = body.password]

\* POST /login arrives: validateLogin, admin = await Admin.findOne({ email })
\* and the checks on admin
adminLogin(r, body) ==
  /\ Free(r)
  /\ UNCHANGED <<store, nextId, now, hits, admins, tokens>>
  /\ IF ~validateLogin(body)
       THEN /\ out' = LoginReply(body, 400, "")
            /\ Pass
       ELSE LET found == findAdmin(body.email) IN
            IF loginGate(found) = 401
              THEN /\ out' = LoginReply(body, 401, InvalidLoginMsg)
                   /\ Pass
            ELSE IF loginGate(found) = 403
              THEN /\ out' = LoginReply(body, 403, DeactivatedMsg)
                   /\ Pass
            ELSE LET admin == CHOOSE a \in found : TRUE IN
                 /\ Start(r, [IdleReq EXCEPT !.kind = "login", !.pc = "comparePassword",
                                             !.email = body.email,
                                             !.password = body.password,
                                             !.hash = admin.password,
                                             !.role = admin.role])
                 /\ Silent

\* isPasswordValid = await admin.comparePassword(password)
adminLogin_comparePassword(r) ==
  /\ req[r].kind = "login" /\ req[r].pc = "comparePassword"
  /\ UNCHANGED <<store, nextId, now, hits, admins, tokens>>
  /\ IF ~comparePassword(req[r].password, req[r].hash)
       THEN /\ out' = LoginReply(req[r], 401, InvalidLoginMsg)
            /\ Finish(r)
       ELSE /\ req' = [req EXCEPT ![r].pc = "save"]
            /\ Silent

\* admin.lastLogin = new Date(); await admin.save(); token =
\* generateToken(email) and the 200 response
adminLogin_save(r) ==
  /\ req[r].kind = "login" /\ req[r].pc = "save"
  /\ UNCHANGED <<store, nextId, now, hits>>
  /\ Finish(r)
  /\ IF findAdmin(req[r].email) # {}
       THEN /\ admins' = {IF a.email = req[r].email
                             THEN [a EXCEPT !.lastLogin = Date(now)] ELSE a : a \in admins}
            /\ tokens' = tokens \cup {generateToken(req[r].email, now)}
            /\ out' = [LoginReply(req[r], 200, LoginOkMsg) EXCEPT
                         !.token = <<generateToken(req[r].email, now)>>,
                         !.role = req[r].role]
       ELSE /\ out' = [LoginReply(req[r], 500, LoginFailedMsg) EXCEPT
                         !.error = "DocumentNotFoundError"]
            /\ UNCHANGED <<admins, tokens>>

\* the 401 of authenticateAdmin to a request of the given kind
Denied(kind, h, c) ==
  [Response(kind, "authenticateAdmin", 401, authMessage(h, c)) EXCEPT !.auth = <<h, c>>]

\* a response of the handler behind authenticateAdmin
Granted(kind, h, c, status, message) ==
  [Response(kind, "handler", status, message) EXCEPT !.auth = <<h, c>>]

\* GET /verify: authenticateAdmin, then verifyToken
verifyToken(h, c) ==
  /\ UNCHANGED <<store, nextId, now, hits, admins, tokens>>
  /\ Pass
  /\ IF authenticateAdmin(h, c, now) # 0
       THEN out' = Denied("verify", h, c)
       ELSE out' = [Granted("verify", h, c, 200, "Token is valid")
                    EXCEPT !.email = tokenOf(h, c)[1].email]

(***************************************************************************)
(* controllers/waitlistController.js: addToWaitlist                        *)
(***************************************************************************)
AlreadyMsg == "You're already on the waitlist!"
WelcomeBackMsg == "Welcome back! You've been added to the waitlist again."
AddedMsg == "Successfully added to waitlist!"
AddedCheckMsg == "Successfully added to waitlist! Check your email for confirmation."
JoinFailedMsg == "Failed to join waitlist. Please try again."
TooManyMsg == "Too many requests from this IP, please try again later."
InvalidEmailMsg == "Please provide a valid email address"

\* the catch block of addToWaitlist
joinCatch(r, error) ==
  [Reply(r, 500, JoinFailedMsg) EXCEPT !.error = error]

\* POST /join arrives: limiter, validateEmail, and the handler up to its
\* first await
join(r, ip, body) ==
  /\ Free(r)
  /\ hits[ip] < MaxHits
  /\ hits' = [hits EXCEPT ![ip] = @ + 1]
  /\ UNCHANGED <<store, nextId, now, admins, tokens>>
  /\ IF limited(hits[ip] + 1)
       THEN /\ out' = Response("join", "limiter", 429, TooManyMsg)
            /\ Pass
       ELSE IF ~isEmail(body)
         THEN /\ out' = [Response("join", "handler", 400, InvalidEmailMsg) EXCEPT
                           !.body = body]
              /\ Pass
         ELSE /\ Start(r, [IdleReq EXCEPT !.kind = "join", !.pc = "findOne",
                                          !.body = body, !.email = normalizeEmail(body),
                                          !.ip = ip])
              /\ Silent

\* existingEntry = await Waitlist.findOne({ email }) and the branch on it
addToWaitlist_findOne(r) ==
  /\ req[r].kind = "join" /\ req[r].pc = "findOne"
  /\ UNCHANGED <<store, nextId, now, admins, tokens, hits>>
  /\ LET found == findOne(req[r].email) IN
     IF found # {}
       THEN LET existingEntry == CHOOSE e \in found : TRUE IN
            IF reactivates(existingEntry)
              THEN /\ req' = [req EXCEPT ![r].pc = "save", ![r].body = <<>>,
                                         ![r].doc = existingEntry.id,
                                         ![r].path = "reactivated"]
                   /\ Silent
              ELSE /\ out' = [Reply(r, 200, AlreadyMsg) EXCEPT
                                !.email = existingEntry.email, !.path = "existing"]
                   /\ Finish(r)
       ELSE /\ (nextId - 1) + Cardinality({x \in Req : req[x].pc = "create"}) < MaxId
            /\ req' = [req EXCEPT ![r].pc = "create", ![r].body = <<>>,
                                  ![r].path = "created"]
            /\ Silent

\* await existingEntry.save() of the reactivation branch
addToWaitlist_save(r) ==
  /\ req[r].kind = "join" /\ req[r].pc = "save"
  /\ UNCHANGED <<nextId, now, admins, tokens, hits>>
  /\ IF exists(req[r].doc)
       THEN /\ store' = save(req[r].doc, [status |-> reactivatedStatus, confirmedAt |-> null])
            /\ req' = [req EXCEPT ![r].pc = "sendReactivation"]
            /\ Silent
       ELSE /\ out' = joinCatch(r, "DocumentNotFoundError")
            /\ Finish(r)
            /\ UNCHANGED store

\* emailResult = await sendWelcomeEmail(email) of the reactivation branch
addToWaitlist_sendReactivation(r) ==
  /\ req[r].kind = "join" /\ req[r].pc = "sendReactivation"
  /\ UNCHANGED <<store, nextId, now, admins, tokens, hits>>
  /\ \E configured, delivered \in BOOLEAN :
       /\ out' = IF sendWelcomeEmail(configured, delivered) = "throw"
                   THEN [joinCatch(r, "MailError") EXCEPT !.mailed = TRUE]
                   ELSE [Reply(r, 200, WelcomeBackMsg) EXCEPT
                           !.email = emailSetter(req[r].email), !.mailed = TRUE]
       /\ Finish(r)

\* waitlistEntry = await Waitlist.create({...})
addToWaitlist_create(r) ==
  /\ req[r].kind = "join" /\ req[r].pc = "create"
  /\ UNCHANGED <<now, admins, tokens, hits>>
  /\ LET email == emailSetter(req[r].email) IN
     IF ~validator(email)
       THEN /\ out' = joinCatch(r, "ValidationError")
            /\ Finish(r)
            /\ UNCHANGED <<store, nextId>>
       ELSE IF duplicateKey(email)
         THEN /\ out' = joinCatch(r, "E11000")
              /\ Finish(r)
              /\ UNCHANGED <<store, nextId>>
         ELSE /\ store' = store \cup {newEntry(nextId, email, req[r].ip, now)}
              /\ nextId' = nextId + 1
              /\ req' = [req EXCEPT ![r].pc = "sendWelcome", ![r].createdAt = now]
              /\ Silent

\* emailResult = await sendWelcomeEmail(email) after the insert
addToWaitlist_sendWelcome(r) ==
  /\ req[r].kind = "join" /\ req[r].pc = "sendWelcome"
  /\ UNCHANGED <<store, nextId, now, admins, tokens, hits>>
  /\ \E configured, delivered \in BOOLEAN :
       IF sendWelcomeEmail(configured, delivered) = "throw"
         THEN /\ out' = [joinCatch(r, "MailError") EXCEPT !.mailed = TRUE]
              /\ Finish(r)
         ELSE /\ req' = [req EXCEPT
                        ![r].pc = "countDocuments",
                        ![r].emailSent = (sendWelcomeEmail(configured, delivered) = "success"),
                        ![r].mailed = TRUE]
              /\ Silent

\* position = await Waitlist.countDocuments({...}) and the 201 response
addToWaitlist_countDocuments(r) ==
  /\ req[r].kind = "join" /\ req[r].pc = "countDocuments"
  /\ UNCHANGED <<store, nextId, now, admins, tokens, hits>>
  /\ out' = [Reply(r, 201, IF req[r].emailSent THEN AddedCheckMsg ELSE AddedMsg) EXCEPT
               !.email = emailSetter(req[r].email),
               !.position = countPosition(req[r].createdAt),
               !.emailSent = req[r].emailSent]
  /\ Finish(r)


(***************************************************************************)
(* controllers/waitlistController.js: unsubscribe                          *)
(***************************************************************************)
NotFoundMsg == "Email not found in waitlist"
UnsubscribedMsg == "Successfully unsubscribed from waitlist"
UnsubscribeFailedMsg == "Failed to unsubscribe"

\* POST /unsubscribe arrives: validateEmail, the handler and its
\* entry = await Waitlist.findOne({ email })
unsubscribe(r, body) ==
  /\ Free(r)
  /\ UNCHANGED <<store, nextId, now, admins, tokens, hits>>
  /\ IF ~isEmail(body)
       THEN /\ out' = [Response("unsubscribe", "handler", 400, InvalidEmailMsg) EXCEPT
                         !.body = body]
            /\ Pass
       ELSE LET found == findOne(normalizeEmail(body)) IN
            IF found = {}
              THEN /\ out' = [Response("unsubscribe", "handler", 404, NotFoundMsg)
                                EXCEPT !.email = normalizeEmail(body)]
                   /\ Pass
              ELSE LET entry == CHOOSE e \in found : TRUE IN
                   /\ Start(r, [IdleReq EXCEPT !.kind = "unsubscribe", !.pc = "save",
                                               !.email = normalizeEmail(body),
                                               !.doc = entry.id,
                                               !.docStatus = entry.status])
                   /\ Silent

unsubscribe_deleteOne(r) ==
  /\ req[r].kind = "unsubscribe" /\ req[r].pc = "save"
  /\ UNCHANGED <<nextId, now, admins, tokens, hits>>
  /\ Finish(r)
  /\ store' = {e \in store : e.id # req[r].doc}
  /\ out' = Reply(r, 200, UnsubscribedMsg)

\* entry.status = 'unsubscribed'; await entry.save(): the status is
\* written when the assignment changed the loaded document
unsubscribe_save(r) ==
  /\ req[r].kind = "unsubscribe" /\ req[r].pc = "save"
  /\ UNCHANGED <<nextId, now, admins, tokens, hits>>
  /\ Finish(r)
  /\ IF exists(req[r].doc)
       THEN /\ store' = IF req[r].docStatus # "unsubscribed"
                          THEN save(req[r].doc, [status |-> "unsubscribed"])
                          ELSE store
            /\ out' = Reply(r, 200, UnsubscribedMsg)
       ELSE /\ out' = [Reply(r, 500, UnsubscribeFailedMsg) EXCEPT
                         !.error = "DocumentNotFoundError"]
            /\ UNCHANGED store

(***************************************************************************)
(* controllers/waitlistController.js: getWaitlistStats                     *)
(***************************************************************************)
\* GET /stats arrives; totalCount = await Waitlist.countDocuments(...)
getWaitlistStats(r) ==
  /\ Free(r)
  /\ UNCHANGED <<store, nextId, now, admins, tokens, hits>>
  /\ Silent
  /\ Start(r, [IdleReq EXCEPT !.kind = "stats", !.pc = "countConfirmed",
                              !.totalCount = countActive, !.quiet = Alone(r)])

\* confirmedCount = await Waitlist.countDocuments({ status: 'confirmed' })
getWaitlistStats_countConfirmed(r) ==
  /\ req[r].kind = "stats" /\ req[r].pc = "countConfirmed"
  /\ UNCHANGED <<store, nextId, now, admins, tokens, hits>>
  /\ Silent
  /\ req' = [req EXCEPT ![r].pc = "countToday", ![r].confirmedCount = countConfirmed]

\* todayCount = await Waitlist.countDocuments(...) and the response
getWaitlistStats_countToday(r) ==
  /\ req[r].kind = "stats" /\ req[r].pc = "countToday"
  /\ UNCHANGED <<store, nextId, now, admins, tokens, hits>>
  /\ out' = [Reply(r, 200, "") EXCEPT
               !.total = req[r].totalCount,
               !.confirmed = req[r].confirmedCount,
               !.today = countToday(now)]
  /\ Finish(r)

(***************************************************************************)
(* controllers/adminController.js: deleteEntry behind authenticateAdmin    *)
(***************************************************************************)
\* an :id parameter that is not the 24 hex digits of an ObjectId
NotAnObjectId == 0

\* the :id parameters of a request: an ObjectId or another string
IdParams == Ids \cup {NotAnObjectId}

\* the cast of the :id parameter to the type of _id succeeds; Mongoose
\* rejects the query with a CastError when it does not
castObjectId(id) == id # NotAnObjectId

DeletedMsg == "Entry deleted successfully"
EntryNotFoundMsg == "Entry not found"
DeleteFailedMsg == "Failed to delete entry"

\* DELETE /api/admin/entries/:id: authenticateAdmin, then
\* entry = await Waitlist.findByIdAndDelete(id)
deleteEntry(h, c, id) ==
  /\ UNCHANGED <<nextId, now, admins, tokens, hits>>
  /\ Pass
  /\ IF authenticateAdmin(h, c, now) # 0
       THEN /\ out' = Denied("deleteEntry", h, c)
            /\ UNCHANGED store
       ELSE IF ~castObjectId(id)
         THEN /\ out' = [Granted("deleteEntry", h, c, 500, DeleteFailedMsg) EXCEPT
                           !.error = "CastError", !.doc = id]
              /\ UNCHANGED store
       ELSE IF ~exists(id)
         THEN /\ out' = [Granted("deleteEntry", h, c, 404, EntryNotFoundMsg) EXCEPT !.doc = id]
              /\ UNCHANGED store
         ELSE /\ out' = [Granted("deleteEntry", h, c, 200, DeletedMsg) EXCEPT
                           !.doc = id,
                           !.email = (CHOOSE e \in store : e.id = id).email]
              /\ store' = {e \in store : e.id # id}

(***************************************************************************)
(* controllers/adminController.js: getAllEntries and exportToCSV           *)
(***************************************************************************)
\* the values of the status parameter of the query string: absent, or a value
StatusParams == {<<>>, <<"all">>, <<"confirmed">>, <<"pending">>, <<"unsubscribed">>}

\* parseInt(req.query.limit) || 20 of getAllEntries
defaultLimit == 20

\* parseInt(req.query.limit) || 50 of getAllWaitlistEntries
defaultLimitAll == 50

\* parseInt(param) || d: an absent or zero parameter gives the default
orDefault(n, d) == IF n = 0 THEN d ELSE n

\* new RegExp(pattern, 'i').test(s), for patterns of literal characters
\* and the wildcard "."
regexTest(pattern, s) ==
  \E start \in 0..Len(s) :
    \A i \in 1..Len(pattern) :
      /\ start + i <= Len(s)
      /\ \/ pattern[i] = "."
         \/ toLowerCase(pattern[i]) = toLowerCase(s[start + i])

\* the query getAllEntries builds from status and search
entriesQuery(status, search) ==
  [status |-> IF status # <<>> /\ status[1] # "all" THEN status ELSE <<>>,
   email |-> search]

exportQuery_noFilter(status) == [status |-> <<>>, email |-> <<>>]

\* the query exportToCSV builds from status
exportQuery(status) ==
  [status |-> IF status # <<>> /\ status[1] # "all" THEN status ELSE <<>>,
   email |-> <<>>]

\* Waitlist.find(query): the documents that match
find(query) ==
  {e \in store : /\ query.status = <<>> \/ e.status = query.status[1]
                 /\ query.email = <<>> \/ regexTest(query.email, e.email)}

\* Waitlist.countDocuments(query)
countDocuments(query) == Cardinality(find(query))

\* .sort({ createdAt: -1 }): the orders the sort may return, documents
\* with equal createdAt in any order
sortByCreatedAtDesc(S) ==
  {f \in [1..Cardinality(S) -> S] :
     /\ \A i, j \in 1..Cardinality(S) : i # j => f[i] # f[j]
     /\ \A i, j \in 1..Cardinality(S) : i < j => f[i].createdAt >= f[j].createdAt}

\* .skip(skip).limit(limit)
skipLimit(entries, skip, limit) ==
  SubSeq(entries, skip + 1, IF skip + limit < Len(entries) THEN skip + limit ELSE Len(entries))

\* Math.ceil(total / limit)
ceilDiv(total, limit) == (total + limit - 1) \div limit

\* GET /api/admin/entries arrives: authenticateAdmin, the query, and
\* entries = await Waitlist.find(query).sort().skip().limit()
getAllEntries(r, h, c, status, search, page, limit) ==
  /\ Free(r)
  /\ UNCHANGED <<store, nextId, now, hits, admins, tokens>>
  /\ IF authenticateAdmin(h, c, now) # 0
       THEN /\ out' = Denied("entries", h, c)
            /\ Pass
       ELSE \E sorted \in sortByCreatedAtDesc(find(entriesQuery(status, search))) :
              /\ Start(r, [IdleReq EXCEPT
                             !.kind = "entries", !.pc = "countDocuments",
                             !.auth = <<h, c>>,
                             !.filter = status,
                             !.query = entriesQuery(status, search),
                             !.page = orDefault(page, 1),
                             !.limit = orDefault(limit, defaultLimit),
                             !.entries = skipLimit(sorted,
                                                   (orDefault(page, 1) - 1) * orDefault(limit, defaultLimit),
                                                   orDefault(limit, defaultLimit))])
              /\ Silent

\* total = await Waitlist.countDocuments(query) and the response
getAllEntries_countDocuments(r) ==
  /\ req[r].kind = "entries" /\ req[r].pc = "countDocuments"
  /\ UNCHANGED <<store, nextId, now, hits, admins, tokens>>
  /\ out' = [Reply(r, 200, "") EXCEPT
               !.auth = req[r].auth, !.filter = req[r].filter,
               !.query = req[r].query,
               !.entries = req[r].entries,
               !.page = req[r].page, !.limit = req[r].limit,
               !.total = countDocuments(req[r].query),
               !.pages = ceilDiv(countDocuments(req[r].query), req[r].limit)]
  /\ Finish(r)

\* entry.createdAt.toISOString()
toISOString(t) == <<"ISO", t>>

csvHeader == <<"Email", "Status", "Signup Date", "Confirmed Date", "IP Address">>
newline == <<"\n">>

\* the row of one entry
csvRow(e) ==
  <<e.email, e.status, toISOString(e.createdAt),
    IF e.confirmedAt # null THEN toISOString(e.confirmedAt[1]) ELSE "N/A",
    IF e.ipAddress # "" THEN e.ipAddress ELSE "N/A">>

\* rows.join('\n'): the rows with a newline between two of them
RECURSIVE join_(_)
join_(rows) ==
  IF Len(rows) = 0 THEN <<>>
  ELSE IF Len(rows) = 1 THEN <<rows[1]>>
  ELSE <<rows[1], newline>> \o join_(Tail(rows))

\* csvHeader + csvRows: the header line, its newline, and the joined rows
csvOf(entries) ==
  <<csvHeader, newline>> \o join_([i \in 1..Len(entries) |-> csvRow(entries[i])])

\* GET /api/admin/export: authenticateAdmin, then exportToCSV
exportToCSV(h, c, status) ==
  /\ UNCHANGED <<store, nextId, now, hits, admins, tokens>>
  /\ Pass
  /\ IF authenticateAdmin(h, c, now) # 0
       THEN out' = Denied("export", h, c)
       ELSE \E sorted \in sortByCreatedAtDesc(find(exportQuery(status))) :
              out' = [Granted("export", h, c, 200, "") EXCEPT
                        !.filter = status,
                        !.query = exportQuery(status),
                        !.csv = csvOf(sorted)]

(***************************************************************************)
(* controllers/adminController.js: getAdminStats                           *)
(***************************************************************************)
\* days of the month of the calendar, and the day of the month of the
\* day the clock starts in
MonthLen == 30
FirstDay == 30

\* the day a tick lies in, and the midnight that begins a day
dayOf(t) == t \div DayLen
midnight(d) == d * DayLen

\* date.getDate() of the day d, d counted from the day the clock starts in
getDate(d) == ((d + FirstDay - 1) % MonthLen) + 1

\* weekStart: new Date() with setDate(getDate() - 7), the time of day kept
weekStart(t) == t - 7 * DayLen

\* monthStart: new Date() with setDate(1) and setHours(0, 0, 0, 0)
monthStart(t) == midnight(dayOf(t) - (getDate(dayOf(t)) - 1))

\* countDocuments({ createdAt: { $gte: from }, status: { $ne: 'unsubscribed' } })
countSince(from) ==
  Cardinality({e \in store : e.createdAt >= from /\ e.status # "unsubscribed"})

\* countDocuments({ createdAt: { $gte: date, $lt: nextDate }, status: { $ne: 'unsubscribed' } })
countBetween(date, nextDate) ==
  Cardinality({e \in store : /\ e.createdAt >= date /\ e.createdAt < nextDate
                             /\ e.status # "unsubscribed"})

\* countDocuments({ status })
countStatus(status) == Cardinality({e \in store : e.status = status})

\* the awaits of getAdminStats before its last one, in order: the name of
\* the count and its result when it is issued at tick t
statsQuery(i, t) ==
  CASE i = 1 -> <<"total", countActive>>
    [] i = 2 -> <<"confirmed", countStatus("confirmed")>>
    [] i = 3 -> <<"pending", countStatus("pending")>>
    [] i = 4 -> <<"unsubscribed", countStatus("unsubscribed")>>
    [] i = 5 -> <<"today", countSince(midnight(dayOf(t)))>>
    [] i = 6 -> <<"thisWeek", countSince(weekStart(t))>>
    [] i = 7 -> <<"thisMonth", countSince(monthStart(t))>>
    [] OTHER -> <<toISOString(midnight(dayOf(t) - (14 - i))),
                  countBetween(midnight(dayOf(t) - (14 - i)),
                               midnight(dayOf(t) - (14 - i) + 1))>>

\* the number of counts getAdminStats awaits: 7 and the 7 days of the trend
StatsCounts == 14

\* GET /api/admin/stats arrives: authenticateAdmin and the first count
getAdminStats(r, h, c) ==
  /\ Free(r)
  /\ UNCHANGED <<store, nextId, now, hits, admins, tokens>>
  /\ IF authenticateAdmin(h, c, now) # 0
       THEN /\ out' = Denied("adminStats", h, c)
            /\ Pass
       ELSE /\ Start(r, [IdleReq EXCEPT !.kind = "adminStats", !.pc = "countDocuments",
                                        !.auth = <<h, c>>,
                                        !.counts = <<statsQuery(1, now)>>])
            /\ Silent

\* the next count of getAdminStats
getAdminStats_countDocuments(r) ==
  /\ req[r].kind = "adminStats" /\ req[r].pc = "countDocuments"
  /\ UNCHANGED <<store, nextId, now, hits, admins, tokens>>
  /\ Silent
  /\ req' = [req EXCEPT
               ![r].counts = Append(@, statsQuery(Len(@) + 1, now)),
               ![r].pc = IF Len(req[r].counts) + 1 = StatsCounts THEN "find" ELSE "countDocuments"]

\* latestSignups = await Waitlist.find(...).sort().limit(5) and the response
getAdminStats_find(r) ==
  /\ req[r].kind = "adminStats" /\ req[r].pc = "find"
  /\ UNCHANGED <<store, nextId, now, hits, admins, tokens>>
  /\ \E sorted \in sortByCreatedAtDesc(findActive(store)) :
       out' = [Reply(r, 200, "") EXCEPT
                 !.auth = req[r].auth, !.counts = req[r].counts,
                 !.entries = skipLimit(sorted, 0, 5)]
  /\ Finish(r)

(***************************************************************************)
(* controllers/waitlistController.js: getAllWaitlistEntries, confirmEmail  *)
(***************************************************************************)
\* GET /all arrives; entries = await Waitlist.find(...).sort().skip().limit()
getAllWaitlistEntries(r, page, limit) ==
  /\ Free(r)
  /\ UNCHANGED <<store, nextId, now, hits, admins, tokens>>
  /\ Silent
  /\ \E sorted \in sortByCreatedAtDesc(findActive(store)) :
       Start(r, [IdleReq EXCEPT
                   !.kind = "all", !.pc = "countDocuments",
                   !.page = orDefault(page, 1),
                   !.limit = orDefault(limit, defaultLimitAll),
                   !.entries = skipLimit(sorted,
                                         (orDefault(page, 1) - 1) * orDefault(limit, defaultLimitAll),
                                         orDefault(limit, defaultLimitAll))])

\* total = await Waitlist.countDocuments(...) and the response
getAllWaitlistEntries_countDocuments(r) ==
  /\ req[r].kind = "all" /\ req[r].pc = "countDocuments"
  /\ UNCHANGED <<store, nextId, now, hits, admins, tokens>>
  /\ out' = [Reply(r, 200, "") EXCEPT
               !.entries = req[r].entries,
               !.page = req[r].page, !.limit = req[r].limit,
               !.total = countActive,
               !.pages = ceilDiv(countActive, req[r].limit)]
  /\ Finish(r)

\* the tokens a client puts in GET /confirm/:token
ConfirmTokens == {"0123abcd", "x"}

ConfirmedMsg == "Email confirmed successfully!"

confirmEmail_clearsConfirmedAt(token) ==
  /\ UNCHANGED <<nextId, now, hits, admins, tokens>>
  /\ Pass
  /\ store' = {[e EXCEPT !.confirmedAt = null] : e \in store}
  /\ out' = [Response("confirm", "handler", 200, ConfirmedMsg) EXCEPT !.token = <<token>>]

confirmEmail_confirmsPending(token) ==
  /\ UNCHANGED <<nextId, now, hits, admins, tokens>>
  /\ Pass
  /\ store' = {IF e.status = "pending"
                 THEN [e EXCEPT !.status = "confirmed", !.confirmedAt = Date(now)]
                 ELSE e : e \in store}
  /\ out' = [Response("confirm", "handler", 200, ConfirmedMsg) EXCEPT !.token = <<token>>]

\* GET /confirm/:token: the placeholder answers every token alike
confirmEmail(token) ==
  /\ UNCHANGED <<store, nextId, now, hits, admins, tokens>>
  /\ Pass
  /\ out' = [Response("confirm", "handler", 200, ConfirmedMsg) EXCEPT !.token = <<token>>]

(***************************************************************************)
(* The environment: the clock and the limiter's window.                    *)
(***************************************************************************)
Tick ==
  /\ now < MaxTime
  /\ now' = now + 1
  /\ UNCHANGED <<store, nextId, hits, req, admins, tokens>>
  /\ Silent

\* the window of a client address ends: its counter starts again
resetKey(ip) ==
  /\ hits[ip] > 0
  /\ hits' = [hits EXCEPT ![ip] = 0]
  /\ UNCHANGED <<store, nextId, now, admins, tokens, req>>
  /\ Silent

(***************************************************************************)
(* The specification.                                                      *)
(***************************************************************************)
Init ==
  /\ store = {}
  /\ nextId = 1
  /\ now = 0
  /\ hits = [ip \in Clients |-> 0]
  /\ req = [r \in Req |-> IdleReq]
  /\ out = NoResponse
  /\ admins = Accounts
  /\ tokens = {}

\* an admin request with the token of a login at the first tick
Bearer(k) == [present |-> TRUE, bearer |-> TRUE, rest |-> <<k>>]
AdminHeaders == {NoHeader, Bearer(generateToken(AdminEmail, 0))}

\* a client that sends a few requests to /join in each window, fewer than
\* the limiter allows
joinFew(r, ip, body) == hits[ip] < Burst /\ join(r, ip, body)

\* the bodies of the clients of each specification
Bodies == {a_x_io, A_X_io, b_x_io, sp_a_x_io, a_x}
PlainBodies == {a_x_io, b_x_io, a_x}
OneBodies == {a_x_io, ct_x_io, a_x}

\* join, unsubscribe and delete requests, two of them at a time
Next ==
  \/ \E r \in Req, body \in Bodies : joinFew(r, "ip1", body)
  \/ \E r \in Req : addToWaitlist_findOne(r)
  \/ \E r \in Req : addToWaitlist_save(r)
  \/ \E r \in Req : addToWaitlist_sendReactivation(r)
  \/ \E r \in Req : addToWaitlist_create(r)
  \/ \E r \in Req : addToWaitlist_sendWelcome(r)
  \/ \E r \in Req : addToWaitlist_countDocuments(r)
  \/ \E r \in Req, body \in Bodies : unsubscribe(r, body)
  \/ \E r \in Req : unsubscribe_save(r)
  \/ \E h \in AdminHeaders, id \in Ids : deleteEntry(h, <<>>, id)
  \/ resetKey("ip1")

Spec == Init /\ [][Next]_vars

\* the same requests and GET /stats
NextStats ==
  \/ \E r \in Req, body \in PlainBodies : joinFew(r, "ip1", body)
  \/ \E r \in Req : addToWaitlist_findOne(r)
  \/ \E r \in Req : addToWaitlist_save(r)
  \/ \E r \in Req : addToWaitlist_sendReactivation(r)
  \/ \E r \in Req : addToWaitlist_create(r)
  \/ \E r \in Req : addToWaitlist_sendWelcome(r)
  \/ \E r \in Req : addToWaitlist_countDocuments(r)
  \/ \E r \in Req, body \in PlainBodies : unsubscribe(r, body)
  \/ \E r \in Req : unsubscribe_save(r)
  \/ \E r \in Req : getWaitlistStats(r)
  \/ \E r \in Req : getWaitlistStats_countConfirmed(r)
  \/ \E r \in Req : getWaitlistStats_countToday(r)
  \/ \E h \in AdminHeaders, id \in Ids : deleteEntry(h, <<>>, id)
  \/ resetKey("ip1")

SpecStats == Init /\ [][NextStats]_vars

\* two client addresses that join as often as they like
NextLimiter ==
  \/ \E r \in Req, ip \in Clients, body \in OneBodies : join(r, ip, body)
  \/ \E r \in Req : addToWaitlist_findOne(r)
  \/ \E r \in Req : addToWaitlist_create(r)
  \/ \E r \in Req : addToWaitlist_sendWelcome(r)
  \/ \E r \in Req : addToWaitlist_countDocuments(r)
  \/ \E ip \in Clients : resetKey(ip)

SpecLimiter == Init /\ [][NextLimiter]_vars

\* logins and GET /verify while the clock runs
NextAuth ==
  \/ \E r \in Req, body \in LoginBodies : adminLogin(r, body)
  \/ \E r \in Req : adminLogin_comparePassword(r)
  \/ \E r \in Req : adminLogin_save(r)
  \/ \E h \in HeldHeaders, c \in HeldCookies : verifyToken(h, c)
  \/ Tick

SpecAuth == Init /\ [][NextAuth]_vars

\* no request is in flight
Idle == \A x \in Req : req[x].pc = "idle"

\* the Authorization headers of an admin at tick t: none, or a bearer token
AdminHeadersAt(t) == {NoHeader} \cup {Bearer(k) : k \in Tokens(t)}

TwoBodies == {a_x_io, b_x_io}

\* the admin routes while the clock runs, over the entries of joins; the
\* requests arrive one after the other
NextAdmin ==
  \/ \E r \in Req, body \in TwoBodies : Idle /\ joinFew(r, "ip1", body)
  \/ \E r \in Req : addToWaitlist_findOne(r)
  \/ \E r \in Req : addToWaitlist_create(r)
  \/ \E r \in Req : addToWaitlist_sendWelcome(r)
  \/ \E r \in Req : addToWaitlist_countDocuments(r)
  \/ \E h \in AdminHeadersAt(now) : Idle /\ verifyToken(h, <<>>)
  \/ \E r \in Req, h \in AdminHeadersAt(now) : Idle /\ getAdminStats(r, h, <<>>)
  \/ \E r \in Req : getAdminStats_countDocuments(r)
  \/ \E r \in Req : getAdminStats_find(r)
  \/ \E r \in Req, h \in AdminHeadersAt(now), status \in StatusParams :
       Idle /\ getAllEntries(r, h, <<>>, status, <<>>, 0, 0)
  \/ \E r \in Req : getAllEntries_countDocuments(r)
  \/ \E h \in AdminHeadersAt(now), status \in StatusParams :
       Idle /\ exportToCSV(h, <<>>, status)
  \/ \E h \in AdminHeadersAt(now), id \in Ids : Idle /\ deleteEntry(h, <<>>, id)
  \/ Tick
  \/ resetKey("ip1")

SpecAdmin == Init /\ [][NextAdmin]_vars

\* the listing and the export of an admin, over the entries of joins and
\* unsubscribes; the requests arrive one after the other
NextExport ==
  \/ \E r \in Req, body \in TwoBodies : Idle /\ joinFew(r, "ip1", body)
  \/ \E r \in Req : addToWaitlist_findOne(r)
  \/ \E r \in Req : addToWaitlist_save(r)
  \/ \E r \in Req : addToWaitlist_sendReactivation(r)
  \/ \E r \in Req : addToWaitlist_create(r)
  \/ \E r \in Req : addToWaitlist_sendWelcome(r)
  \/ \E r \in Req : addToWaitlist_countDocuments(r)
  \/ \E r \in Req, body \in TwoBodies : Idle /\ unsubscribe(r, body)
  \/ \E r \in Req : unsubscribe_save(r)
  \/ \E r \in Req, h \in AdminHeaders, status \in StatusParams, limit \in {0, 1} :
       Idle /\ getAllEntries(r, h, <<>>, status, <<>>, 0, limit)
  \/ \E r \in Req : getAllEntries_countDocuments(r)
  \/ \E h \in AdminHeaders, status \in StatusParams : Idle /\ exportToCSV(h, <<>>, status)
  \/ \E h \in AdminHeaders, id \in Ids : Idle /\ deleteEntry(h, <<>>, id)
  \/ resetKey("ip1")

SpecExport == Init /\ [][NextExport]_vars

\* joins and unsubscribes, two at a time, while the clock runs
NextClock ==
  \/ \E r \in Req, body \in TwoBodies : joinFew(r, "ip1", body)
  \/ \E r \in Req : addToWaitlist_findOne(r)
  \/ \E r \in Req : addToWaitlist_save(r)
  \/ \E r \in Req : addToWaitlist_sendReactivation(r)
  \/ \E r \in Req : addToWaitlist_create(r)
  \/ \E r \in Req : addToWaitlist_sendWelcome(r)
  \/ \E r \in Req : addToWaitlist_countDocuments(r)
  \/ \E r \in Req, body \in TwoBodies : unsubscribe(r, body)
  \/ \E r \in Req : unsubscribe_save(r)
  \/ Tick
  \/ resetKey("ip1")

SpecClock == Init /\ [][NextClock]_vars

\* the public routes, two requests at a time, and the admin's delete
NextPublic ==
  \/ \E r \in Req, body \in TwoBodies : joinFew(r, "ip1", body)
  \/ \E r \in Req : addToWaitlist_findOne(r)
  \/ \E r \in Req : addToWaitlist_save(r)
  \/ \E r \in Req : addToWaitlist_sendReactivation(r)
  \/ \E r \in Req : addToWaitlist_create(r)
  \/ \E r \in Req : addToWaitlist_sendWelcome(r)
  \/ \E r \in Req : addToWaitlist_countDocuments(r)
  \/ \E r \in Req, body \in TwoBodies : unsubscribe(r, body)
  \/ \E r \in Req : unsubscribe_save(r)
  \/ \E r \in Req : getWaitlistStats(r)
  \/ \E r \in Req : getWaitlistStats_countConfirmed(r)
  \/ \E r \in Req : getWaitlistStats_countToday(r)
  \/ \E r \in Req : getAllWaitlistEntries(r, 0, 1)
  \/ \E r \in Req : getAllWaitlistEntries_countDocuments(r)
  \/ \E token \in ConfirmTokens : confirmEmail(token)
  \/ \E h \in AdminHeaders, id \in Ids : deleteEntry(h, <<>>, id)
  \/ resetKey("ip1")

SpecPublic == Init /\ [][NextPublic]_vars

\* the admin's delete with any :id parameter, beside joins and
\* unsubscribes, two requests at a time
NextDelete ==
  \/ \E r \in Req, body \in TwoBodies : joinFew(r, "ip1", body)
  \/ \E r \in Req : addToWaitlist_findOne(r)
  \/ \E r \in Req : addToWaitlist_save(r)
  \/ \E r \in Req : addToWaitlist_sendReactivation(r)
  \/ \E r \in Req : addToWaitlist_create(r)
  \/ \E r \in Req : addToWaitlist_sendWelcome(r)
  \/ \E r \in Req : addToWaitlist_countDocuments(r)
  \/ \E r \in Req, body \in TwoBodies : unsubscribe(r, body)
  \/ \E r \in Req : unsubscribe_save(r)
  \/ \E h \in AdminHeaders, id \in IdParams : deleteEntry(h, <<>>, id)
  \/ resetKey("ip1")

SpecDelete == Init /\ [][NextDelete]_vars
\* the bodies of clients that post malformed addresses and addresses
\* with a tag
MixedBodies == {a_x_io, ct_x_io, sp_a_x_io, a_x}

\* joins and unsubscribes with well-formed and malformed addresses, two
\* requests at a time
NextValidation ==
  \/ \E r \in Req, body \in MixedBodies : joinFew(r, "ip1", body)
  \/ \E r \in Req : addToWaitlist_findOne(r)
  \/ \E r \in Req : addToWaitlist_save(r)
  \/ \E r \in Req : addToWaitlist_sendReactivation(r)
  \/ \E r \in Req : addToWaitlist_create(r)
  \/ \E r \in Req : addToWaitlist_sendWelcome(r)
  \/ \E r \in Req : addToWaitlist_countDocuments(r)
  \/ \E r \in Req, body \in MixedBodies : unsubscribe(r, body)
  \/ \E r \in Req : unsubscribe_save(r)
  \/ resetKey("ip1")

SpecValidation == Init /\ [][NextValidation]_vars
\* the search parameters of an admin: absent, a piece of an address in
\* another case, and pieces with a dot
Searches == {<<>>, <<"A", "@">>, <<"x", ".", "i">>, <<"a", ".", "x">>}

\* the listing of an admin with a status filter and a search term, over
\* the entries of joins and unsubscribes; the requests arrive one after
\* the other
NextSearch ==
  \/ \E r \in Req, body \in TwoBodies : Idle /\ joinFew(r, "ip1", body)
  \/ \E r \in Req : addToWaitlist_findOne(r)
  \/ \E r \in Req : addToWaitlist_save(r)
  \/ \E r \in Req : addToWaitlist_sendReactivation(r)
  \/ \E r \in Req : addToWaitlist_create(r)
  \/ \E r \in Req : addToWaitlist_sendWelcome(r)
  \/ \E r \in Req : addToWaitlist_countDocuments(r)
  \/ \E r \in Req, body \in TwoBodies : Idle /\ unsubscribe(r, body)
  \/ \E r \in Req : unsubscribe_save(r)
  \/ \E r \in Req, h \in AdminHeaders, status \in StatusParams, search \in Searches :
       Idle /\ getAllEntries(r, h, <<>>, status, search, 0, 0)
  \/ \E r \in Req : getAllEntries_countDocuments(r)
  \/ Tick
  \/ resetKey("ip1")

SpecSearch == Init /\ [][NextSearch]_vars
\* the requests in flight are listings: nothing writes to the store
Reading == \A x \in Req : req[x].kind \in {"none", "all"}

\* no listing is in flight
Writing == \A x \in Req : req[x].kind # "all"

\* the page and limit parameters of a client that pages through the listing
PageParams == 1..2
LimitParams == 1..2

\* the public listing, page by page, over the entries of joins and
\* unsubscribes, two at a time, while the clock runs; a listing arrives
\* beside another listing, every other request when no listing is in
\* flight
NextPages ==
  \/ \E r \in Req, body \in TwoBodies : Writing /\ joinFew(r, "ip1", body)
  \/ \E r \in Req : addToWaitlist_findOne(r)
  \/ \E r \in Req : addToWaitlist_save(r)
  \/ \E r \in Req : addToWaitlist_sendReactivation(r)
  \/ \E r \in Req : addToWaitlist_create(r)
  \/ \E r \in Req : addToWaitlist_sendWelcome(r)
  \/ \E r \in Req : addToWaitlist_countDocuments(r)
  \/ \E r \in Req, body \in TwoBodies : Writing /\ unsubscribe(r, body)
  \/ \E r \in Req : unsubscribe_save(r)
  \/ \E r \in Req, page \in PageParams, limit \in LimitParams :
       Reading /\ getAllWaitlistEntries(r, page, limit)
  \/ \E r \in Req : getAllWaitlistEntries_countDocuments(r)
  \/ Tick
  \/ resetKey("ip1")

SpecPages == Init /\ [][NextPages]_vars
\* the credentials of clients that know the passwords of both accounts
KnownLogins == [email : {a_x_io, b_x_io}, password : {"pw1", "pw2"}]

\* the Authorization headers of the holder of the tokens handed out
HeldBearers == {NoHeader} \cup {Bearer(k) : k \in Held}

\* logins and every admin route with the tokens the logins handed out,
\* while the clock runs and the operator deactivates and deletes
\* accounts; the requests arrive one after the other
NextRevoke ==
  \/ \E r \in Req, body \in KnownLogins : Idle /\ adminLogin(r, body)
  \/ \E r \in Req : adminLogin_comparePassword(r)
  \/ \E r \in Req : adminLogin_save(r)
  \/ \E email \in {a_x_io, b_x_io} : deactivate(email)
  \/ \E email \in {a_x_io, b_x_io} : deleteAdmin(email)
  \/ \E r \in Req : Idle /\ joinFew(r, "ip1", a_x_io)
  \/ \E r \in Req : addToWaitlist_findOne(r)
  \/ \E r \in Req : addToWaitlist_create(r)
  \/ \E r \in Req : addToWaitlist_sendWelcome(r)
  \/ \E r \in Req : addToWaitlist_countDocuments(r)
  \/ \E h \in HeldBearers : Idle /\ verifyToken(h, <<>>)
  \/ \E r \in Req, h \in HeldBearers : Idle /\ getAdminStats(r, h, <<>>)
  \/ \E r \in Req : getAdminStats_countDocuments(r)
  \/ \E r \in Req : getAdminStats_find(r)
  \/ \E r \in Req, h \in HeldBearers : Idle /\ getAllEntries(r, h, <<>>, <<>>, <<>>, 0, 0)
  \/ \E r \in Req : getAllEntries_countDocuments(r)
  \/ \E h \in HeldBearers : Idle /\ exportToCSV(h, <<>>, <<>>)
  \/ \E h \in HeldBearers, id \in Ids : Idle /\ deleteEntry(h, <<>>, id)
  \/ Tick

SpecRevoke == Init /\ [][NextRevoke]_vars

(***************************************************************************)
(* The claims.                                                             *)
(***************************************************************************)
ids(S) == {e.id : e \in S}

\* request r is a join that completes its findOne in this step
JoinFinds(r) ==
  req[r].kind = "join" /\ req[r].pc = "findOne" /\ req'[r].pc # "findOne"

\* request r is a join that completes the save of its reactivation in this step
JoinSaves(r) ==
  req[r].kind = "join" /\ req[r].pc = "save" /\ req'[r].pc # "save"

\* C1: a join whose lookup finds an entry with the normalised form of its
\* email that is not unsubscribed is answered 200 "already on the
\* waitlist", ends there, leaves the store as it is and sends no mail.
C1_JoinAgainIsIdempotent ==
  [][\A r \in Req :
       (/\ JoinFinds(r)
        /\ \E e \in store : e.email = normalizeEmail(req[r].body)
                            /\ e.status # "unsubscribed")
       => /\ out'.kind = "join" /\ out'.status = 200 /\ out'.message = AlreadyMsg
          /\ out'.email = normalizeEmail(req[r].body)
          /\ ~out'.mailed
          /\ store' = store
          /\ req'[r].pc = "idle"]_vars

\* C1 witness: a join sent with A@X.io was answered "already" by the entry a@x.io
C1_Witness ==
  /\ out.message = AlreadyMsg /\ out.body = A_X_io
  /\ \E e \in store : e.email = a_x_io /\ e.status = "confirmed"

\* C2: the store never holds two entries with the same normalised email.
C2_UniqueEmail ==
  \A e1, e2 \in store :
    normalizeEmail(e1.email) = normalizeEmail(e2.email) => e1 = e2

\* C2 witness: two joins of one new email raced and the index refused the second insert
C2_Witness == out.error = "E11000" /\ Cardinality(store) = 1

\* C3: a join whose insert the unique index refuses is answered with the
\* benign 200 "already on the waitlist" (as claimed; the code answers 500).
C3_DuplicateInsertIsBenign ==
  out.error = "E11000" => (out.status = 200 /\ out.message = AlreadyMsg)

\* C4: a join that created its entry and whose welcome mail failed is
\* answered 201 with emailSent false, the entry staying stored (as claimed;
\* the code answers 500).
C4_MailFailureStillCreated ==
  (out.kind = "join" /\ out.path = "created" /\ out.error = "MailError")
    => (out.status = 201 /\ ~out.emailSent)

\* C5: a join that reactivated an unsubscribed entry and whose welcome mail
\* failed is answered 200 with the reactivation message (as claimed; the
\* code answers 500).
C5_ReactivationMailFailureSwallowed ==
  (out.kind = "join" /\ out.path = "reactivated" /\ out.error = "MailError")
    => (out.status = 200 /\ out.message = WelcomeBackMsg)

\* C6: a join that finds its email unsubscribed creates no record and
\* takes that entry to its save; the save leaves the same identifiers in
\* the store, changes of that entry only status, to pending, and
\* confirmedAt, to null, and the listing query then returns it as pending.
C6_UnsubscribeThenJoinReactivates ==
  [][\A r \in Req :
       /\ (/\ JoinFinds(r)
           /\ \E e \in store : e.email = normalizeEmail(req[r].body)
                               /\ e.status = "unsubscribed")
          => /\ store' = store
             /\ req'[r].pc = "save"
             /\ \E e \in store : e.id = req'[r].doc
                                 /\ e.email = normalizeEmail(req[r].body)
       /\ (JoinSaves(r) /\ req[r].doc \in ids(store))
          => /\ ids(store') = ids(store)
             /\ \A e \in store : e.id # req[r].doc => e \in store'
             /\ \E d \in store, e \in findActive(store') :
                  /\ d.id = req[r].doc /\ e.id = req[r].doc
                  /\ e.status = "pending" /\ e.confirmedAt = null
                  /\ e = [d EXCEPT !.status = "pending", !.confirmedAt = null]]_vars

\* C6 witness: a confirmed entry was unsubscribed and a join has just reactivated it
C6_Witness ==
  \E r \in Req, e \in store :
    /\ req[r].pc = "sendReactivation" /\ e.id = req[r].doc
    /\ e.status = "pending" /\ e.confirmedAt = null

AllowedChange ==
  {<<"confirmed", "unsubscribed">>, <<"pending", "unsubscribed">>,
   <<"unsubscribed", "pending">>}

\* C7: every step leaves each stored status in {pending, confirmed,
\* unsubscribed}; an entry new in the store is confirmed, and an entry
\* that stays keeps its status or changes it confirmed->unsubscribed,
\* pending->unsubscribed or unsubscribed->pending.
C7_StatusTransitions ==
  [][\A e \in store' :
       /\ e.status \in {"pending", "confirmed", "unsubscribed"}
       /\ IF e.id \in ids(store)
            THEN \A d \in store :
                   d.id = e.id => (d.status = e.status
                                   \/ <<d.status, e.status>> \in AllowedChange)
            ELSE e.status = "confirmed"]_vars

\* C7 witness: an entry that went confirmed -> unsubscribed -> pending beside a confirmed one
C7_Witness ==
  \E e1, e2 \in store : e1.status = "pending" /\ e2.status = "confirmed"

\* C8: a stats request that ran with no other request in flight answers
\* total = the number of entries not unsubscribed and confirmed = the
\* number of confirmed entries.
C8_StatsCounts ==
  (out.kind = "stats" /\ out.quiet)
    => /\ out.total = Cardinality({e \in store : e.status # "unsubscribed"})
       /\ out.confirmed = Cardinality({e \in store : e.status = "confirmed"})

\* C8 witness: stats answered alone over one pending and one unsubscribed entry
C8_Witness ==
  /\ out.kind = "stats" /\ out.quiet
  /\ Cardinality(store) = 2 /\ out.total = 1 /\ out.confirmed = 0

\* C9: every stats response has confirmed <= total (as claimed; the two
\* counts are separate queries and a join between them breaks it).
C9_ConfirmedAtMostTotal ==
  out.kind = "stats" => out.confirmed <= out.total

\* C10: a request to /join that is among the first 5 of its client address
\* since the window began is passed to the handler; a later one is
\* answered 429 by the limiter, starts no handler and leaves the store;
\* the counters of the other addresses do not move.
C10_LimiterBoundary ==
  [][\A ip \in Clients :
       hits'[ip] = hits[ip] + 1
       => /\ \A o \in Clients \ {ip} : hits'[o] = hits[o]
          /\ IF hits[ip] < 5
               THEN /\ out'.by # "limiter"
                    /\ \/ out'.by = "handler" /\ out'.kind = "join"
                       \/ \E x \in Req : /\ req[x].pc = "idle"
                                         /\ req'[x].pc = "findOne"
                                         /\ req'[x].ip = ip
               ELSE /\ out'.by = "limiter" /\ out'.status = 429
                    /\ store' = store
                    /\ \A x \in Req : req'[x].pc = req[x].pc]_vars

\* C10 witness: the 6th request of ip1 was refused while ip2 is at its 5th
C10_Witness ==
  /\ out.by = "limiter" /\ hits["ip1"] = 6 /\ hits["ip2"] = 5
  /\ \E x \in Req : req[x].ip = "ip2" /\ req[x].pc = "findOne"

\* the password p is the password of the account with email e
PasswordOf(e, p) == \E a \in admins : a.email = e /\ a.password = bcryptHash(p)

\* the token k was handed out by a login less than 24 hours ago
Fresh(k) == k \in tokens /\ now - k.iat < DayLen

\* the token of an Authorization header, <<>> when it carries none
HeaderToken(h) == IF h.present THEN h.rest ELSE <<>>

\* C11: a login that succeeds hands out a token issued now; GET /verify
\* with a token a login handed out is answered 200 while less than 24
\* hours have passed since the login, and 401 from then on.
C11_TokenValidFor24h ==
  /\ (out.kind = "login" /\ out.status = 200)
       => /\ Len(out.token) = 1
          /\ out.token[1] \in tokens
          /\ out.token[1].iat = now
  /\ \A k \in tokens :
       (out.kind = "verify" /\ out.auth = <<Bearer(k), <<>> >>)
         => out.status = (IF now - k.iat < DayLen THEN 200 ELSE 401)

\* C11 witness: the token of a login at tick 0 is refused a day later
C11_Witness ==
  /\ out.kind = "verify" /\ out.status = 401
  /\ \E k \in tokens : out.auth = <<Bearer(k), <<>> >> /\ now = k.iat + DayLen

\* C12: a login with a well-formed body whose password is not the
\* password of the account with its email, or whose email has no account,
\* is answered 401 "Invalid email or password" (as claimed; the code
\* answers 403 for a deactivated account before it looks at the password).
C12_NoAccountEnumeration ==
  (/\ out.kind = "login"
   /\ isEmail(out.email) /\ out.password # ""
   /\ ~PasswordOf(out.email, out.password))
    => (out.status = 401 /\ out.message = InvalidLoginMsg)

\* C13: a login with the correct password of a deactivated account is
\* answered 403 without a token and changes neither the accounts nor the
\* tokens handed out; lastLogin changes only in a step that answers a
\* login with 200 and a token.
C13_DeactivatedLoginRefused ==
  [][/\ (/\ out'.kind = "login"
         /\ \E a \in admins : a.email = out'.email /\ ~a.isActive
         /\ PasswordOf(out'.email, out'.password))
        => /\ out'.status = 403 /\ out'.token = <<>>
           /\ admins' = admins /\ tokens' = tokens
     /\ \A a \in admins, b \in admins' :
          (a.email = b.email /\ a.lastLogin # b.lastLogin)
            => /\ out'.kind = "login" /\ out'.status = 200
               /\ out'.email = a.email /\ Len(out'.token) = 1]_vars

\* C13 witness: b@x.io, deactivated, was refused with its own password
C13_Witness ==
  /\ out.kind = "login" /\ out.status = 403
  /\ out.email = b_x_io /\ PasswordOf(b_x_io, out.password)
  /\ \E a \in admins : a.email = AdminEmail /\ a.lastLogin # null

\* C14: the token of a successful login embeds the email and the role of
\* the account, and the response returns the same role (as claimed; the
\* code embeds the role 'admin' whatever the account's role).
C14_TokenEmbedsAccountRole ==
  (out.kind = "login" /\ out.status = 200)
    => \E a \in admins :
         /\ a.email = out.email
         /\ out.token[1].email = a.email
         /\ out.role = a.role
         /\ out.token[1].role = a.role

\* C16: with a bearer token in the Authorization header and an adminToken
\* cookie, GET /verify is answered 200 exactly when the header's token is
\* fresh; a request answered 200 that carries a header token was accepted
\* for that token; with no header token the cookie decides.
C16_HeaderTakesPrecedence ==
  (out.kind = "verify" /\ Len(out.auth) = 2)
    => LET h == out.auth[1]
           c == out.auth[2]
       IN /\ (h.present /\ h.bearer /\ h.rest # <<>> /\ c # <<>>)
               => (out.status = 200 <=> Fresh(h.rest[1]))
          /\ (out.status = 200 /\ HeaderToken(h) # <<>>) => Fresh(HeaderToken(h)[1])
          /\ (HeaderToken(h) = <<>> /\ c # <<>>)
               => (out.status = 200 <=> Fresh(c[1]))
          /\ out.status \in {200, 401}

\* C16 witness: a stale header token was refused although the cookie held a fresh one
C16_Witness ==
  /\ out.kind = "verify" /\ out.status = 401 /\ Len(out.auth) = 2
  /\ out.auth[1].present /\ out.auth[1].bearer /\ out.auth[1].rest # <<>>
  /\ out.auth[1].rest[1] \in tokens /\ ~Fresh(out.auth[1].rest[1])
  /\ out.auth[2] # <<>> /\ Fresh(out.auth[2][1])

AdminKinds == {"verify", "adminStats", "entries", "export", "deleteEntry"}

\* the token a request presents: the header's, else the cookie's
Presented(auth) == IF HeaderToken(auth[1]) # <<>> THEN HeaderToken(auth[1]) ELSE auth[2]

\* the request presents no token, or one that is not signed with the
\* secret, or one issued a day ago or earlier
BadToken(auth) ==
  \/ Presented(auth) = <<>>
  \/ Presented(auth)[1].sig # "JWT_SECRET"
  \/ now - Presented(auth)[1].iat >= DayLen

\* C15: an admin request that presents no token, a malformed one or an
\* expired one is answered 401 by the middleware in the step it arrives
\* in: no handler starts, the store stays as it is; a handler that starts
\* was given a good token.
C15_AdminNeedsValidToken ==
  [][/\ (/\ out'.kind \in AdminKinds /\ Len(out'.auth) = 2
         /\ \A x \in Req : req[x].pc = "idle"
         /\ BadToken(out'.auth))
        => /\ out'.status = 401 /\ out'.by = "authenticateAdmin"
           /\ store' = store
           /\ req' = req
     /\ \A x \in Req :
          (req[x].pc = "idle" /\ req'[x].kind \in AdminKinds) => ~BadToken(req'[x].auth)
     /\ (out'.kind = "deleteEntry" /\ BadToken(out'.auth)) => store' = store]_vars

\* C15 witness: a delete with the expired token of tick 0 was refused over a stored entry
C15_Witness ==
  /\ out.kind = "deleteEntry" /\ out.status = 401
  /\ out.auth = <<Bearer(generateToken(AdminEmail, 0)), <<>> >>
  /\ now >= DayLen /\ store # {}

\* the data rows of a CSV text: its lines but the header line
DataRows(csv) == Cardinality({i \in 1..Len(csv) : csv[i] # newline}) - 1

\* C17: the CSV of an export has as many data rows as the listing's count
\* for the same status parameter and no search finds in the same store;
\* the total of a listing without search is the number of data rows of the
\* export for the same status parameter in the same store.
C17_ExportRowsEqualListTotal ==
  /\ (out.kind = "export" /\ out.status = 200)
       => DataRows(out.csv) = countDocuments(entriesQuery(out.filter, <<>>))
  /\ (out.kind = "entries" /\ out.status = 200 /\ out.query.email = <<>>)
       => \A sorted \in sortByCreatedAtDesc(find(exportQuery(out.filter))) :
            out.total = DataRows(csvOf(sorted))

\* C17 witness: an export of the unsubscribed entries has one row of two stored entries
C17_Witness ==
  /\ out.kind = "export" /\ out.status = 200 /\ out.filter = <<"unsubscribed">>
  /\ Len(out.csv) = 3 /\ Cardinality(store) = 2

\* request r is a join that answers with its position in this step
JoinCounts(r) ==
  req[r].kind = "join" /\ req[r].pc = "countDocuments" /\ req'[r].pc = "idle"

\* C18: the join that created an entry is answered 201 with position = the
\* number of stored entries that are not unsubscribed and whose createdAt
\* is at or before the createdAt of the entry it created; when that entry
\* is the only stored one, as it was created, the position is 1.
C18_PositionCountsEarlierActive ==
  [][\A r \in Req :
       JoinCounts(r)
       => /\ out'.kind = "join" /\ out'.status = 201
          /\ \E mine \in store :
               /\ mine.email = out'.email
               /\ out'.position =
                    Cardinality({e \in store : /\ e.status # "unsubscribed"
                                               /\ e.createdAt <= mine.createdAt})
               /\ (store = {mine} /\ mine.status = "confirmed") => out'.position = 1]_vars

\* C18 witness: a join counted itself only, beside a later entry or an
\* unsubscribed earlier one
C18_Witness ==
  /\ out.kind = "join" /\ out.status = 201 /\ out.position = 1
  /\ \E mine, other \in store :
       /\ mine.email = out.email /\ other # mine
       /\ \/ other.createdAt > mine.createdAt /\ other.status # "unsubscribed"
          \/ other.createdAt <= mine.createdAt /\ other.status = "unsubscribed"

\* request r is an unsubscribe that completes its save in this step
UnsubscribeSaves(r) ==
  req[r].kind = "unsubscribe" /\ req[r].pc = "save" /\ req'[r].pc = "idle"

C20_PublicNeverDeletes ==
  [][ids(store) \subseteq ids(store')
     \/ (out'.kind = "deleteEntry" /\ out'.status = 200 /\ out'.by = "handler")]_vars

\* C20 witness: the listing was answered over an unsubscribed and a pending entry
C20_Witness ==
  /\ out.kind = "all" /\ out.status = 200
  /\ \E e1, e2 \in store : e1.status = "unsubscribed" /\ e2.status = "pending"

\* request r is a join that completes its insert in this step
JoinCreates(r) ==
  req[r].kind = "join" /\ req[r].pc = "create" /\ req'[r].pc # "create"

\* a delete request with a token that verifies
ValidDelete(o) ==
  /\ o.kind = "deleteEntry" /\ Len(o.auth) = 2
  /\ tokenOf(o.auth[1], o.auth[2]) # <<>>
  /\ verify(tokenOf(o.auth[1], o.auth[2])[1], now)

\* C21: a delete with a valid token whose identifier an entry has is
\* answered 200 and takes exactly that entry out of the store, so that no
\* entry holds its email any more; one whose identifier no entry has is
\* answered 404 and leaves the store as it is (as claimed; the code
\* answers 500 when the identifier is not an ObjectId); a join that finds
\* no entry with its email goes on to insert, and the entry it inserts is
\* confirmed.
C21_DeleteRemovesExactlyOne ==
  [][/\ ValidDelete(out')
        => IF \E e \in store : e.id = out'.doc
             THEN /\ out'.status = 200
                  /\ \E d \in store : /\ d.id = out'.doc
                                       /\ store' = store \ {d}
                                       /\ \A e \in store' : e.email # d.email
             ELSE /\ out'.status = 404 /\ out'.message = EntryNotFoundMsg
                  /\ store' = store
     /\ \A r \in Req :
          /\ (JoinFinds(r) /\ \A e \in store : e.email # req[r].email)
               => req'[r].pc = "create"
          /\ (JoinCreates(r) /\ \A e \in store : e.email # req[r].email)
               => \E e \in store' :
                    /\ store' = store \cup {e} /\ e.id \notin ids(store)
                    /\ e.email = req[r].email
                    /\ e.status = "confirmed" /\ e.confirmedAt = Date(now)]_vars

\* the answer to a request whose email failed validation: 400 with the
\* errors of the validator, nothing stored, nothing mailed
Rejected400 ==
  /\ out'.status = 400 /\ out'.message = InvalidEmailMsg
  /\ store' = store
  /\ ~out'.mailed

\* a join or unsubscribe that the limiter let through and whose
\* email is not an e-mail address for validateEmail is answered 400 with
\* the validator's errors in the step it arrives in: no handler starts,
\* no entry is created or changed, no mail is sent; a handler that starts
\* carries an address that passed.
MalformedEmailRefused ==
  [][/\ (/\ out'.kind \in {"join", "unsubscribe"} /\ out'.by = "handler"
         /\ out'.body # <<>> /\ ~isEmail(out'.body))
        => /\ Rejected400
           /\ \A x \in Req : req'[x].pc = req[x].pc
     /\ \A x \in Req :
          (req[x].pc = "idle" /\ req'[x].kind \in {"join", "unsubscribe"})
            => isEmail(req'[x].email)]_vars

\* C22: a join or unsubscribe whose email fails validation, that of
\* validateEmail or that of the Waitlist schema, is answered 400 with the
\* validation errors, with nothing stored and nothing mailed (as claimed;
\* the code answers 500 when the schema refuses the address).
C22_InvalidEmailIs400 ==
  [][/\ (/\ out'.kind \in {"join", "unsubscribe"} /\ out'.by = "handler"
         /\ out'.body # <<>> /\ ~isEmail(out'.body))
        => Rejected400
     /\ \A r \in Req :
          (JoinCreates(r) /\ ~validator(emailSetter(req[r].email)))
            => Rejected400]_vars

\* C23: GET /confirm/:token is answered 200 "Email confirmed
\* successfully!" for every token, in one step that starts no handler and
\* leaves the store as it is: no entry's status or confirmedAt changes.
C23_ConfirmIsNoOp ==
  [][out'.kind = "confirm"
       => /\ out'.status = 200 /\ out'.message = ConfirmedMsg
          /\ out'.token \in {<<t>> : t \in ConfirmTokens}
          /\ store' = store
          /\ \A x \in Req : req'[x].pc = req[x].pc]_vars

\* C23 witness: a confirm was answered while a reactivated entry stays
\* pending without confirmedAt
C23_Witness ==
  /\ out.kind = "confirm" /\ out.status = 200 /\ out.token = <<"x">>
  /\ \E e \in store : e.status = "pending" /\ e.confirmedAt = null

\* C24: every stored entry with status confirmed has a confirmedAt, and
\* every stored entry with status pending has confirmedAt null.
C24_ConfirmedAtFollowsStatus ==
  \A e \in store :
    /\ e.status = "confirmed" => e.confirmedAt # null
    /\ e.status = "pending" => e.confirmedAt = null

\* C24 witness: an entry confirmed when it was created, beside an entry
\* that was confirmed, unsubscribed and reactivated to pending
C24_Witness ==
  \E e1, e2 \in store :
    /\ e1.status = "confirmed" /\ e1.confirmedAt = Date(e1.createdAt)
    /\ e2.status = "pending" /\ e2.confirmedAt = null /\ e2.id # e1.id

\* the string s contains the term as it is written, letter case aside
includes(s, term) ==
  \E start \in 0..(Len(s) - Len(term)) :
    \A i \in 1..Len(term) : toLowerCase(term[i]) = toLowerCase(s[start + i])

\* the entries a listing with this status parameter and search term is to return
Wanted(status, search) ==
  {e \in store : /\ (status = <<>> \/ status = <<"all">> \/ e.status = status[1])
                 /\ includes(e.email, search)}

\* the elements of a sequence
Range(f) == {f[i] : i \in 1..Len(f)}

\* C25: a listing that fits on its page returns each entry once whose
\* status is the status parameter (any status when the parameter is absent
\* or 'all') and whose email contains the search term literally, letter
\* case aside, and no other entry, the later createdAt first (as claimed;
\* the code hands the term to the store as a regular expression).
C25_ListFiltersLiterally ==
  (out.kind = "entries" /\ out.status = 200)
    => /\ Range(out.entries) = Wanted(out.filter, out.query.email)
       /\ Len(out.entries) = Cardinality(Wanted(out.filter, out.query.email))
       /\ \A i, j \in 1..Len(out.entries) :
            i < j => out.entries[i].createdAt >= out.entries[j].createdAt

\* request x is a listing that has its page and waits for the total
Listed(x) == req[x].kind = "all" /\ req[x].pc = "countDocuments"

\* the entries at ranks from..to of an order
Ranks(sorted, from, to) ==
  {sorted[i] : i \in {k \in 1..Len(sorted) : from <= k /\ k <= to}}

\* C26: a listing answers pages = ceil(total/limit); the page p it found
\* holds, in order, the entries at ranks (p-1)*limit+1 .. p*limit of the
\* entries that are not unsubscribed in createdAt descending order; two
\* listings of the same store with the same limit and different pages
\* hold no entry in common, and pages 1 and 2 of limit 1 over two such
\* entries hold both (as claimed; the store orders entries with equal
\* createdAt anew in every query).
C26_PagesPartitionTheListing ==
  /\ (out.kind = "all" /\ out.status = 200)
       => /\ out.pages * out.limit >= out.total
          /\ (out.pages - 1) * out.limit < out.total \/ out.pages = 0
          /\ out.total = Cardinality(findActive(store))
  /\ \A x \in Req :
       Listed(x)
       => /\ \E sorted \in sortByCreatedAtDesc(findActive(store)) :
               /\ Range(req[x].entries) =
                    Ranks(sorted, (req[x].page - 1) * req[x].limit + 1,
                          req[x].page * req[x].limit)
               /\ \A i \in 1..Len(req[x].entries) :
                    req[x].entries[i] = sorted[(req[x].page - 1) * req[x].limit + i]
          /\ \A e \in Range(req[x].entries) : e.status # "unsubscribed"
  /\ \A x, y \in Req :
       (Listed(x) /\ Listed(y) /\ req[x].limit = req[y].limit /\ req[x].page # req[y].page)
       => /\ Range(req[x].entries) \cap Range(req[y].entries) = {}
          /\ (req[x].limit = 1 /\ Cardinality(findActive(store)) = 2)
               => Range(req[x].entries) \cup Range(req[y].entries) = findActive(store)

\* the growth series of a stats response: the counts after the first seven
growthTrend(counts) == SubSeq(counts, 8, Len(counts))

\* C27: the growth series of an admin stats response, the store being the
\* same throughout the request, has 7 buckets, dated with the 7 days that
\* end with the day of the request, the oldest first; each holds the
\* number of entries not unsubscribed that were created from that day's
\* midnight to the next; the last equals timeStats.today, and today is at
\* most thisWeek and at most thisMonth (as claimed; the code reads the
\* clock anew for every count, and a request that runs over midnight
\* mixes two days).
C27_GrowthSeries ==
  (out.kind = "adminStats" /\ out.status = 200)
    => LET trend == growthTrend(out.counts)
           today == out.counts[5][2]
           thisWeek == out.counts[6][2]
           thisMonth == out.counts[7][2]
       IN /\ Len(trend) = 7
          /\ \E day \in 0..dayOf(now) :
               \A k \in 1..7 :
                 /\ trend[k][1] = toISOString(midnight(day - (7 - k)))
                 /\ trend[k][2] =
                      Cardinality({e \in store :
                                     /\ e.status # "unsubscribed"
                                     /\ dayOf(e.createdAt) = day - (7 - k)})
          /\ trend[7][2] = today
          /\ today <= thisWeek
          /\ today <= thisMonth

\* C28: a join that created an entry is answered 201 with a position of
\* at least 1, whatever the other requests do between its insert and its
\* count (as claimed; the count leaves the new entry out when it was
\* unsubscribed or deleted meanwhile).
C28_PositionAtLeastOne ==
  (out.kind = "join" /\ out.status = 201) => out.position >= 1

\* C29: an entry that is pending stays pending in every step, but in the
\* save of an unsubscribe, which makes it unsubscribed and changes nothing
\* else of it, and in a delete answered 200, which removes it; an entry
\* becomes pending only in the save of a join, from unsubscribed. No step
\* of a join, a confirm, a stats or a listing request makes a pending
\* entry confirmed.
C29_PendingStaysPending ==
  [][/\ \A d \in store :
          d.status = "pending"
          => /\ \A e \in store' :
                  e.id = d.id
                  => \/ e = d
                     \/ /\ e = [d EXCEPT !.status = "unsubscribed"]
                        /\ \E r \in Req : UnsubscribeSaves(r) /\ req[r].doc = d.id
             /\ d.id \notin ids(store')
                  => (out'.kind = "deleteEntry" /\ out'.status = 200 /\ out'.doc = d.id)
     /\ \A e \in store' :
          (e.status = "pending" /\ e \notin store)
          => /\ \E d \in store : d.id = e.id /\ d.status = "unsubscribed"
             /\ \E r \in Req : JoinSaves(r) /\ req[r].doc = e.id]_vars

\* C29 witness: a join of the email of a pending entry was answered
\* "already on the waitlist" and the entry is pending still
C29_Witness ==
  /\ out.kind = "join" /\ out.message = AlreadyMsg
  /\ \E e \in store : e.email = out.email /\ e.status = "pending" /\ e.confirmedAt = null

\* an admin request arrives in this step with the authorization auth: it
\* is refused by the middleware, answered by its handler, or its handler
\* starts
ArrivesWith(auth) ==
  \/ out'.kind \in AdminKinds /\ out'.by = "authenticateAdmin" /\ out'.auth = auth
  \/ out'.kind \in {"verify", "export", "deleteEntry"} /\ out'.by = "handler"
       /\ out'.auth = auth
  \/ \E x \in Req : req[x].pc = "idle" /\ req'[x].kind \in AdminKinds /\ req'[x].auth = auth

\* the middleware refuses the request that arrives in this step
Refused == out'.by = "authenticateAdmin" /\ out'.status = 401

\* the account of the token k is deactivated or deleted
Revoked(k) == \A a \in admins : a.email = k.email => ~a.isActive

\* C30: an admin request that arrives with a token a login handed out is
\* refused by the middleware exactly when 24 hours or more have passed
\* since that login, whatever the accounts are: also when the account of
\* the token was deactivated or deleted meanwhile, and on every admin
\* route.
C30_TokenOutlivesAccount ==
  [][\A k \in tokens :
       ArrivesWith(<<Bearer(k), <<>> >>)
       => /\ Refused <=> now - k.iat >= DayLen
          /\ Refused <=> ~verify(k, now)]_vars

\* C30 witness: the entry was deleted with the token of an account that
\* is deactivated or deleted
C30_Witness ==
  /\ out.kind = "deleteEntry" /\ out.status = 200 /\ Len(out.auth) = 2
  /\ \E k \in tokens : out.auth = <<Bearer(k), <<>> >> /\ Revoked(k)

====
